---- MODULE Spec2Model ----
(***************************************************************************)
(* Model of advanced-types/src/app.ts: the union-narrowing functions add,  *)
(* printEmployeeInformation, operateVehicle, moveFauna and addCombinable,  *)
(* the objects they are called on, and the console output they produce.    *)
(*                                                                         *)
(* JavaScript values are tagged records.  Text is a sequence of one-       *)
(* character strings so that concatenation, number formatting and split    *)
(* are computed character by character.                                    *)
(***************************************************************************)
EXTENDS Integers, Sequences, FiniteSets

VARIABLES heap, cur, prev, pc

vars == <<heap, cur, prev, pc>>

(* ---------------------------- bounds ----------------------------------- *)

\* longest enumerated text operand
MaxLen == 1
\* largest enumerated number operand
MaxNum == 2
\* latest clock reading returned by `new Date()`
MaxTime == 1

(* ---------------------------- values ----------------------------------- *)

Str(s) == [kind |-> "string", s |-> s]
Num(n) == [kind |-> "number", n |-> n]
Arr(items) == [kind |-> "array", items |-> items]
DateAt(t) == [kind |-> "date", ms |-> t]
Undefined == [kind |-> "undefined"]

\* typeof v
TypeOf(v) == IF v.kind \in {"string", "number", "undefined"} THEN v.kind ELSE "object"

\* text literals of the source
Ashutosh == <<"A", "s", "h", "u", "t", "o", "s", "h">>
SpBhadoria == <<" ", "B", "h", "a", "d", "o", "r", "i", "a">>
Bhadoria == <<"B", "h", "a", "d", "o", "r", "i", "a">>
Aditya == <<"A", "d", "i", "t", "y", "a">>
Randy == <<"R", "a", "n", "d", "y">>
DropTables == <<"d", "r", "o", "p", "-", "t", "a", "b", "l", "e", "s">>
ChangeSchema == <<"c", "h", "a", "n", "g", "e", "-", "s", "c", "h", "e", "m", "a">>
RestartServer == <<"r", "e", "s", "t", "a", "r", "t", "-", "s", "e", "r", "v", "e", "r">>
TagAnimal == <<"a", "n", "i", "m", "a", "l">>
TagBird == <<"b", "i", "r", "d">>
TagFish == <<"f", "i", "s", "h">>
TxtEmployeeDetails == <<"E", "M", "P", "L", "O", "Y", "E", "E", " ", "D", "E", "T", "A", "I", "L", "S", ":">>
TxtName == <<"N", "a", "m", "e", ":", " ">>
TxtStartDate == <<"S", "t", "a", "r", "t", " ", "D", "a", "t", "e", ":", " ">>
TxtPrivileges == <<"P", "r", "i", "v", "i", "l", "e", "g", "e", "s", ":", " ">>
TxtVroomCar == <<"v", "r", "o", "o", "m">>
TxtVroomTruck == <<"V", "R", "O", "O", "M">>
TxtLoading == <<"L", "o", "a", "d", "i", "n", "g", " ", "c", "a", "r", "d", "o", " ", ":", " ">>
TxtKgs == <<" ", "k", "g", "(", "s", ")">>
TxtOperating == <<"O", "p", "e", "r", "a", "t", "i", "n", "g", " ", "v", "e", "h", "i", "c", "l", "e", ".", ".", ".">>
TxtSpeed == <<"T", "h", "e", " ", "s", "p", "e", "e", "d", " ", "o", "f", " ", "t", "h", "e", " ", "f", "a", "u", "n", "a", " ", "i", "s", " ">>
TxtUndefined == <<"u", "n", "d", "e", "f", "i", "n", "e", "d">>
TxtDate == <<"D", "a", "t", "e", "@">>

\* the fixed weight operateVehicle loads
CargoWeight == 420

(* ------------------------ string conversion ---------------------------- *)

Digit(d) == <<"0", "1", "2", "3", "4", "5", "6", "7", "8", "9">>[d + 1]

RECURSIVE NatToText(_)
NatToText(n) == IF n < 10 THEN <<Digit(n)>>
                ELSE NatToText(n \div 10) \o <<Digit(n % 10)>>

\* Number.prototype.toString() on an integer: decimal digits, "-" when negative
NumToText(n) == IF n < 0 THEN <<"-">> \o NatToText(0 - n) ELSE NatToText(n)

\* Date.prototype.toString(): the format is implementation-defined; it is
\* rendered here as a fixed tag followed by the timestamp's digits
DateToText(d) == TxtDate \o NumToText(d.ms)

\* Array.prototype.toString() on an array of texts: the elements joined by ","
RECURSIVE JoinComma(_)
JoinComma(items) == IF items = <<>> THEN <<>>
                    ELSE IF Len(items) = 1 THEN items[1]
                    ELSE items[1] \o <<",">> \o JoinComma(Tail(items))

\* conversion to text, as done by toString() and by template literals
ToText(v) == CASE v.kind = "string" -> v.s
               [] v.kind = "number" -> NumToText(v.n)
               [] v.kind = "date" -> DateToText(v)
               [] v.kind = "array" -> JoinComma(v.items)
               [] OTHER -> TxtUndefined

\* String.prototype.split with a one-character separator
RECURSIVE SplitFrom(_, _, _)
SplitFrom(s, sep, acc) ==
    IF s = <<>> THEN <<acc>>
    ELSE IF Head(s) = sep THEN <<acc>> \o SplitFrom(Tail(s), sep, <<>>)
    ELSE SplitFrom(Tail(s), sep, Append(acc, Head(s)))

RECURSIVE SplitKeepFrom(_, _, _)
SplitKeepFrom(s, sep, acc) ==
    IF s = <<>> THEN <<acc>>
    ELSE IF Head(s) = sep THEN <<acc>> \o SplitKeepFrom(Tail(s), sep, <<sep>>)
    ELSE SplitKeepFrom(Tail(s), sep, Append(acc, Head(s)))

\* variant: the separator is left at the head of the part that follows it
split_KeepSeparator(s, sep) == SplitKeepFrom(s, sep, <<>>)

split(s, sep) == SplitFrom(s, sep, <<>>)

\* array destructuring  const [first, last] = ...
ElementAt(items, i) == IF i <= Len(items) THEN Str(items[i]) ELSE Undefined

(* -------------------------- pure functions ----------------------------- *)

\* variant: the operands are concatenated in the wrong order
add_Swapped(a, b) == IF TypeOf(a) = "string" \/ TypeOf(b) = "string"
                     THEN Str(ToText(b) \o ToText(a))
                     ELSE Num(b.n + a.n)

\* app.ts add
add(a, b) == IF TypeOf(a) = "string" \/ TypeOf(b) = "string"
             THEN Str(ToText(a) \o ToText(b))
             ELSE Num(a.n + b.n)

\* variant: the typeof guard is missing and every pair is concatenated
addCombinable_AlwaysText(a, b) == Str(ToText(a) \o ToText(b))

\* app.ts addCombinable (the implementation signature; overloads are erased)
addCombinable(a, b) == IF TypeOf(a) = "string" \/ TypeOf(b) = "string"
                       THEN Str(ToText(a) \o ToText(b))
                       ELSE Num(a.n + b.n)

\* the `in` operator on a plain object
HasProp(obj, p) == p \in DOMAIN obj

\* property read: a missing property reads as undefined
Get(obj, p) == IF p \in DOMAIN obj THEN obj[p] ELSE Undefined

\* vehichle instanceof Truck
InstanceOfTruck(obj) == HasProp(obj, "proto") /\ obj.proto = "Truck"

(* ------------------------------ events --------------------------------- *)

LogEv(line) == [op |-> "log", m |-> "console.log", this |-> "console", args |-> <<Str(line)>>]
CallEv(m, id, args) == [op |-> "call", m |-> m, this |-> id, args |-> args]
RetEv(m, id) == [op |-> "ret", m |-> m, this |-> id, args |-> <<>>]

RECURSIVE OutLines(_)
\* the console lines of an event sequence, in order
OutLines(ev) == IF ev = <<>> THEN <<>>
                ELSE IF Head(ev).op = "log" THEN <<Head(ev).args[1].s>> \o OutLines(Tail(ev))
                ELSE OutLines(Tail(ev))

Call(fn, arg, ret, ev) == [fn |-> fn, arg |-> arg, ret |-> ret, ev |-> ev]
NoCall == Call("none", <<>>, Undefined, <<>>)

\* history of the call being made: the record of the call just completed when
\* that call was to the same function with the same arguments, else NoCall
Repeated(fn, arg) == IF cur.fn = fn /\ cur.arg = arg THEN cur ELSE NoCall

(* ------------------------------ objects -------------------------------- *)

\* the objects the script constructs (t1, t2: the two `new Date()` readings),
\* and further argument records of the same shapes
Objects(t1, t2) ==
    [ashutosh |-> [name |-> Str(Ashutosh),
                   privileges |-> Arr(<<DropTables, ChangeSchema>>),
                   startDate |-> DateAt(t1)],
     aditya |-> [name |-> Str(Aditya), privileges |-> Arr(<<RestartServer>>)],
     randy |-> [name |-> Str(Randy), startDate |-> DateAt(t2)],
     nameOnly |-> [name |-> Str(Randy)],
     shelbyGT |-> [proto |-> "Car"],
     fordRaptor |-> [proto |-> "Truck"],
     horse |-> [type |-> Str(TagAnimal), runningSpeed |-> Num(20)],
     sparrow |-> [type |-> Str(TagBird), flyingSpeed |-> Num(10)],
     animalBoth |-> [type |-> Str(TagAnimal), runningSpeed |-> Num(7), flyingSpeed |-> Num(3)],
     birdBoth |-> [type |-> Str(TagBird), runningSpeed |-> Num(7), flyingSpeed |-> Num(3)],
     fishBoth |-> [type |-> Str(TagFish), runningSpeed |-> Num(7), flyingSpeed |-> Num(3)],
     fishBare |-> [type |-> Str(TagFish)]]

Employees == {"ashutosh", "aditya", "randy", "nameOnly"}
Vehicles == {"shelbyGT", "fordRaptor"}
Faunas == {"horse", "sparrow", "animalBoth", "birdBoth", "fishBoth", "fishBare"}

\* Combinable operands
Chars == {"1", "2"}
RECURSIVE TextsUpTo(_)
TextsUpTo(n) == IF n = 0 THEN {<<>>}
                ELSE TextsUpTo(n - 1) \cup
                     {Append(s, c) : s \in {x \in TextsUpTo(n - 1) : Len(x) = n - 1}, c \in Chars}
Texts == TextsUpTo(MaxLen) \cup {Ashutosh, SpBhadoria}
Numbers == (0 - 1) .. MaxNum
Combinables == {Str(s) : s \in Texts} \cup {Num(n) : n \in Numbers}

(* ------------------------------ actions -------------------------------- *)

Init == /\ \E t1 \in 0 .. MaxTime : \E t2 \in t1 .. MaxTime : heap = Objects(t1, t2)
        /\ cur = NoCall
        /\ prev = NoCall
        /\ pc = "top"

\* variant: the sum is offset by whether the call before was also add
Add_Warm(a, b) ==
    /\ pc = "top"
    /\ prev' = Repeated("add", <<a, b>>)
    /\ cur' = Call("add", <<a, b>>,
                   IF TypeOf(a) = "string" \/ TypeOf(b) = "string"
                   THEN add(a, b)
                   ELSE Num(a.n + b.n + (IF cur.fn = "add" THEN 1 ELSE 0)), <<>>)
    /\ UNCHANGED <<heap, pc>>

\* a call statement at the top level of the script: add(a, b)
Add(a, b) ==
    /\ pc = "top"
    /\ prev' = Repeated("add", <<a, b>>)
    /\ cur' = Call("add", <<a, b>>, add(a, b), <<>>)
    /\ UNCHANGED <<heap, pc>>

\* addCombinable(a, b)
AddCombinable(a, b) ==
    /\ pc = "top"
    /\ prev' = Repeated("addCombinable", <<a, b>>)
    /\ cur' = Call("addCombinable", <<a, b>>, addCombinable(a, b), <<>>)
    /\ UNCHANGED <<heap, pc>>

\* result.split(' ') on the text just returned by addCombinable
SplitResult ==
    /\ pc = "top"
    /\ cur.fn = "addCombinable"
    /\ TypeOf(cur.ret) = "string"
    /\ prev' = Repeated("split", <<cur.ret, Str(<<" ">>)>>)
    /\ cur' = Call("split", <<cur.ret, Str(<<" ">>)>>, Arr(split(cur.ret.s, " ")), <<>>)
    /\ UNCHANGED <<heap, pc>>

\* variant: the privileges check is an `else if` of the startDate check
EmployeeEvents_ElseIf(emp) ==
    <<LogEv(TxtEmployeeDetails), LogEv(TxtName \o ToText(Get(emp, "name")))>>
    \o (IF HasProp(emp, "startDate")
        THEN <<LogEv(TxtStartDate \o ToText(Get(emp, "startDate")))>>
        ELSE IF HasProp(emp, "privileges")
        THEN <<LogEv(TxtPrivileges \o ToText(Get(emp, "privileges")))>> ELSE <<>>)

\* the console lines of printEmployeeInformation
EmployeeEvents(emp) ==
    <<LogEv(TxtEmployeeDetails), LogEv(TxtName \o ToText(Get(emp, "name")))>>
    \o (IF HasProp(emp, "startDate")
        THEN <<LogEv(TxtStartDate \o ToText(Get(emp, "startDate")))>> ELSE <<>>)
    \o (IF HasProp(emp, "privileges")
        THEN <<LogEv(TxtPrivileges \o ToText(Get(emp, "privileges")))>> ELSE <<>>)

printEmployeeInformation(id) ==
    /\ pc = "top"
    /\ prev' = Repeated("printEmployeeInformation", <<id>>)
    /\ cur' = Call("printEmployeeInformation", <<id>>, Undefined, EmployeeEvents(heap[id]))
    /\ UNCHANGED <<heap, pc>>

\* variant: the two cases read each other's attribute
FaunaSpeed_Swapped(fauna) ==
    LET tag == Get(fauna, "type") IN
    CASE tag = Str(TagAnimal) -> Get(fauna, "flyingSpeed")
      [] tag = Str(TagBird) -> Get(fauna, "runningSpeed")
      [] OTHER -> Undefined

\* variant: a default case that falls back to runningSpeed
FaunaSpeed_Default(fauna) ==
    LET tag == Get(fauna, "type") IN
    CASE tag = Str(TagAnimal) -> Get(fauna, "runningSpeed")
      [] tag = Str(TagBird) -> Get(fauna, "flyingSpeed")
      [] OTHER -> Get(fauna, "runningSpeed")

\* the value of `speed` after the switch of moveFauna
FaunaSpeed(fauna) ==
    LET tag == Get(fauna, "type") IN
    CASE tag = Str(TagAnimal) -> Get(fauna, "runningSpeed")
      [] tag = Str(TagBird) -> Get(fauna, "flyingSpeed")
      [] OTHER -> Undefined

\* variant: the call strips the speed attributes from its argument
moveFauna_Stripping(id) ==
    /\ pc = "top"
    /\ prev' = Repeated("moveFauna", <<id>>)
    /\ cur' = Call("moveFauna", <<id>>, Undefined,
                   <<LogEv(TxtSpeed \o ToText(FaunaSpeed(heap[id])))>>)
    /\ heap' = [heap EXCEPT ![id] = [type |-> Get(@, "type")]]
    /\ UNCHANGED pc

moveFauna(id) ==
    /\ pc = "top"
    /\ prev' = Repeated("moveFauna", <<id>>)
    /\ cur' = Call("moveFauna", <<id>>, Undefined,
                   <<LogEv(TxtSpeed \o ToText(FaunaSpeed(heap[id])))>>)
    /\ UNCHANGED <<heap, pc>>

Emit(e) == cur' = [cur EXCEPT !.ev = Append(@, e)]
Vehichle == cur.arg[1]

\* variant: a call may begin while another is still in progress
operateVehicle_Reentrant(id) ==
    /\ prev' = Repeated("operateVehicle", <<id>>)
    /\ cur' = Call("operateVehicle", <<id>>, Undefined, <<>>)
    /\ pc' = "ov95"
    /\ UNCHANGED heap

\* operateVehicle(v) is entered
operateVehicle(id) ==
    /\ pc = "top"
    /\ prev' = Repeated("operateVehicle", <<id>>)
    /\ cur' = Call("operateVehicle", <<id>>, Undefined, <<>>)
    /\ pc' = "ov95"
    /\ UNCHANGED heap

\* console.log('Operating vehicle...')
OV_Log ==
    /\ pc = "ov95"
    /\ Emit(LogEv(TxtOperating))
    /\ pc' = "ov97"
    /\ UNCHANGED <<heap, prev>>

\* vehichle.drive(): the method of the object's own class is entered
OV_CallDrive ==
    /\ pc = "ov97"
    /\ Emit(CallEv("drive", Vehichle, <<>>))
    /\ pc' = IF heap[Vehichle].proto = "Truck" THEN "truck84" ELSE "car78"
    /\ UNCHANGED <<heap, prev>>

\* Car.drive
Car_drive ==
    /\ pc = "car78"
    /\ cur' = [cur EXCEPT !.ev = @ \o <<LogEv(TxtVroomCar), RetEv("drive", Vehichle)>>]
    /\ pc' = "ov99"
    /\ UNCHANGED <<heap, prev>>

\* Truck.drive
Truck_drive ==
    /\ pc = "truck84"
    /\ cur' = [cur EXCEPT !.ev = @ \o <<LogEv(TxtVroomTruck), RetEv("drive", Vehichle)>>]
    /\ pc' = "ov99"
    /\ UNCHANGED <<heap, prev>>

\* variant: the instanceof guard is missing
OV_Instanceof_Always ==
    /\ pc = "ov99"
    /\ pc' = "ov100"
    /\ UNCHANGED <<heap, cur, prev>>

\* if (vehichle instanceof Truck)
OV_Instanceof ==
    /\ pc = "ov99"
    /\ pc' = IF InstanceOfTruck(heap[Vehichle]) THEN "ov100" ELSE "ov102"
    /\ UNCHANGED <<heap, cur, prev>>

\* vehichle.loadCargo(420)
OV_CallLoadCargo ==
    /\ pc = "ov100"
    /\ Emit(CallEv("loadCargo", Vehichle, <<Num(CargoWeight)>>))
    /\ pc' = "truck88"
    /\ UNCHANGED <<heap, prev>>

\* Truck.loadCargo(weight)
Truck_loadCargo ==
    /\ pc = "truck88"
    /\ LET weight == cur.ev[Len(cur.ev)].args[1] IN
       cur' = [cur EXCEPT !.ev = @ \o <<LogEv(TxtLoading \o ToText(weight) \o TxtKgs),
                                        RetEv("loadCargo", Vehichle)>>]
    /\ pc' = "ov102"
    /\ UNCHANGED <<heap, prev>>

\* operateVehicle returns to the top level
OV_Return ==
    /\ pc = "ov102"
    /\ pc' = "top"
    /\ UNCHANGED <<heap, cur, prev>>

Next == \/ \E a \in Combinables, b \in Combinables : Add(a, b)
        \/ \E a \in Combinables, b \in Combinables : AddCombinable(a, b)
        \/ SplitResult
        \/ \E id \in Employees : printEmployeeInformation(id)
        \/ \E id \in Faunas : moveFauna(id)
        \/ \E id \in Vehicles : operateVehicle(id)
        \/ OV_Log
        \/ OV_CallDrive
        \/ Car_drive
        \/ Truck_drive
        \/ OV_Instanceof
        \/ OV_CallLoadCargo
        \/ Truck_loadCargo
        \/ OV_Return

Spec == Init /\ [][Next]_vars

TypeOK == /\ pc \in {"top", "ov95", "ov97", "car78", "truck84", "ov99", "ov100", "truck88", "ov102"}
          /\ cur.fn \in {"none", "add", "addCombinable", "split", "printEmployeeInformation",
                         "moveFauna", "operateVehicle"}
          /\ prev.fn \in {"none", cur.fn}

(* ------------------------------ properties ----------------------------- *)

HasPrefix(l, p) == Len(l) >= Len(p) /\ SubSeq(l, 1, Len(p)) = p
LinesWith(lines, p) == {i \in 1 .. Len(lines) : HasPrefix(lines[i], p)}
CallsOf(ev, m) == {i \in 1 .. Len(ev) : ev[i].op = "call" /\ ev[i].m = m}
ReturnsOf(ev, m) == {i \in 1 .. Len(ev) : ev[i].op = "ret" /\ ev[i].m = m}
IsPrefixOf(s, t) == Len(s) <= Len(t) /\ SubSeq(t, 1, Len(s)) = s
IsText(v) == v.kind = "string"

\* C1: add(a, b) is the concatenation of the operands' text forms when either
\* operand is text and the numeric sum when both are numbers; add('1','2') is
\* '12', add(1,'2') is '12', add(1,2) is 3.
C1_AddContract ==
    cur.fn = "add" =>
        LET a == cur.arg[1]
            b == cur.arg[2]
        IN /\ (IsText(a) \/ IsText(b)) =>
                  /\ IsText(cur.ret)
                  /\ cur.ret.s = (IF IsText(a) THEN a.s ELSE NumToText(a.n))
                                 \o (IF IsText(b) THEN b.s ELSE NumToText(b.n))
           /\ (~IsText(a) /\ ~IsText(b)) => cur.ret = Num(a.n + b.n)
           /\ (a = Str(<<"1">>) /\ b = Str(<<"2">>)) => cur.ret = Str(<<"1", "2">>)
           /\ (a = Num(1) /\ b = Str(<<"2">>)) => cur.ret = Str(<<"1", "2">>)
           /\ (a = Num(1) /\ b = Num(2)) => cur.ret = Num(3)
           /\ (a = Num(0 - 1) /\ b = Str(<<"1">>)) => cur.ret = Str(<<"-", "1", "1">>)

C1_Witness ==
    /\ cur.fn = "add"
    /\ cur.arg = <<Num(1), Str(<<"2">>)>>
    /\ cur.ret = Str(<<"1", "2">>)

\* C2: addCombinable and add return the same value of the same kind on every
\* pair of text/number operands: text when any operand is text, a number when
\* both are numbers.
C2_SameAsAdd ==
    cur.fn \in {"add", "addCombinable"} =>
        LET a == cur.arg[1]
            b == cur.arg[2]
        IN /\ cur.ret = add(a, b)
           /\ cur.ret = addCombinable(a, b)
           /\ cur.ret.kind = (IF IsText(a) \/ IsText(b) THEN "string" ELSE "number")

C2_Witness ==
    /\ cur.fn = "addCombinable"
    /\ cur.arg = <<Str(<<"1">>), Num(2)>>
    /\ cur.ret = Str(<<"1", "2">>)

\* C3: printEmployeeInformation always prints the name line, prints exactly one
\* start-date line iff the record has a startDate attribute and exactly one
\* privileges line iff it has a privileges attribute, independently.
C3_EmployeeLines ==
    cur.fn = "printEmployeeInformation" =>
        LET emp == heap[cur.arg[1]]
            lines == OutLines(cur.ev)
            hasStart == "startDate" \in DOMAIN emp
            hasPriv == "privileges" \in DOMAIN emp
        IN /\ \E i \in 1 .. Len(lines) : lines[i] = TxtName \o emp.name.s
           /\ Cardinality(LinesWith(lines, TxtStartDate)) = (IF hasStart THEN 1 ELSE 0)
           /\ Cardinality(LinesWith(lines, TxtPrivileges)) = (IF hasPriv THEN 1 ELSE 0)
           /\ Len(lines) = 2 + (IF hasStart THEN 1 ELSE 0) + (IF hasPriv THEN 1 ELSE 0)

C3_Witness ==
    /\ cur.fn = "printEmployeeInformation"
    /\ cur.arg = <<"ashutosh">>
    /\ Len(OutLines(cur.ev)) = 4
    /\ LinesWith(OutLines(cur.ev), TxtStartDate) = {3}
    /\ LinesWith(OutLines(cur.ev), TxtPrivileges) = {4}

\* C4: a completed operateVehicle has invoked drive() exactly once, and
\* loadCargo exactly once with weight 420 iff the vehicle is a Truck; on a Car
\* no loadCargo call ever occurs.
C4_VehicleCalls ==
    cur.fn = "operateVehicle" =>
        LET v == cur.arg[1]
            isTruck == heap[v].proto = "Truck"
            drives == CallsOf(cur.ev, "drive")
            loads == CallsOf(cur.ev, "loadCargo")
        IN /\ Cardinality(drives) <= 1
           /\ Cardinality(loads) <= (IF isTruck THEN 1 ELSE 0)
           /\ \A i \in drives : cur.ev[i].this = v
           /\ \A i \in loads : cur.ev[i].this = v /\ cur.ev[i].args = <<Num(420)>>
           /\ pc = "top" => /\ Cardinality(drives) = 1
                            /\ Cardinality(loads) = (IF isTruck THEN 1 ELSE 0)

C4_Witness ==
    /\ pc = "top"
    /\ cur.fn = "operateVehicle"
    /\ cur.arg = <<"fordRaptor">>
    /\ Cardinality(CallsOf(cur.ev, "loadCargo")) = 1
    /\ Cardinality(CallsOf(cur.ev, "drive")) = 1

\* C5: moveFauna reports runningSpeed for a record tagged 'animal' and
\* flyingSpeed for a record tagged 'bird'; the horse reports 20 and the
\* sparrow 10.
C5_FaunaSpeed ==
    cur.fn = "moveFauna" =>
        LET fauna == heap[cur.arg[1]]
            lines == OutLines(cur.ev)
        IN /\ fauna.type = Str(TagAnimal) =>
                  lines = <<TxtSpeed \o NumToText(fauna.runningSpeed.n)>>
           /\ fauna.type = Str(TagBird) =>
                  lines = <<TxtSpeed \o NumToText(fauna.flyingSpeed.n)>>
           /\ cur.arg = <<"horse">> => lines = <<TxtSpeed \o <<"2", "0">> >>
           /\ cur.arg = <<"sparrow">> => lines = <<TxtSpeed \o <<"1", "0">> >>

C5_Witness ==
    /\ cur.fn = "moveFauna"
    /\ cur.arg = <<"animalBoth">>
    /\ OutLines(cur.ev) = <<TxtSpeed \o <<"7">> >>

\* C6: for a record whose tag is neither 'animal' nor 'bird', moveFauna
\* completes, prints exactly one speed line, and that line reports
\* "undefined" whatever speed attributes the record carries.
C6_UnknownTag ==
    (cur.fn = "moveFauna" /\ heap[cur.arg[1]].type \notin {Str(TagAnimal), Str(TagBird)}) =>
        /\ pc = "top"
        /\ cur.ret = Undefined
        /\ OutLines(cur.ev) = <<TxtSpeed \o TxtUndefined>>

C6_Witness ==
    /\ cur.fn = "moveFauna"
    /\ cur.arg = <<"fishBoth">>
    /\ "runningSpeed" \in DOMAIN heap["fishBoth"]
    /\ OutLines(cur.ev) = <<TxtSpeed \o TxtUndefined>>

\* C7: a call that repeats the call just completed (same function, same
\* input) returns the same value and produces the same events and output
\* lines, whatever calls came before.
C7_NoHiddenState ==
    (pc = "top" /\ prev.fn # "none") =>
        /\ prev.fn = cur.fn
        /\ prev.arg = cur.arg
        /\ prev.ret = cur.ret
        /\ prev.ev = cur.ev
        /\ OutLines(prev.ev) = OutLines(cur.ev)

C7_Witness ==
    /\ pc = "top"
    /\ prev.fn = "operateVehicle"
    /\ cur.arg = <<"fordRaptor">>
    /\ Len(OutLines(cur.ev)) = 3
    /\ prev.ev = cur.ev

\* C8: splitting addCombinable('Ashutosh', ' Bhadoria') on ' ' yields exactly
\* two parts, 'Ashutosh' then 'Bhadoria'.
C8_RoundTrip ==
    [][(/\ cur.fn = "addCombinable"
        /\ cur.arg = <<Str(Ashutosh), Str(SpBhadoria)>>
        /\ cur'.fn = "split")
       => /\ cur'.arg[1] = cur.ret
          /\ Len(cur'.ret.items) = 2
          /\ ElementAt(cur'.ret.items, 1) = Str(Ashutosh)
          /\ ElementAt(cur'.ret.items, 2) = Str(Bhadoria)
          /\ cur.arg[1].s = cur'.ret.items[1]
          /\ cur.arg[2].s = <<" ">> \o cur'.ret.items[2]]_vars

C8_Witness ==
    /\ cur.fn = "split"
    /\ cur.arg[1] = Str(Ashutosh \o SpBhadoria)
    /\ cur.ret = Arr(<<Ashutosh, Bhadoria>>)

\* C9: no step of printEmployeeInformation, operateVehicle or moveFauna (or
\* of any other function) changes any object: every object keeps the
\* attributes and values it was constructed with.
C9_NoMutation == [][heap' = heap]_vars

C9_Witness ==
    /\ pc = "top"
    /\ cur.fn = "moveFauna"
    /\ prev.fn = "moveFauna"
    /\ heap["horse"] = [type |-> Str(TagAnimal), runningSpeed |-> Num(20)]
    /\ heap["fordRaptor"] = [proto |-> "Truck"]

\* the events of a whole operateVehicle call on v, in order
ExpectedTrace(v, isTruck) ==
    <<LogEv(TxtOperating), CallEv("drive", v, <<>>),
      LogEv(IF isTruck THEN TxtVroomTruck ELSE TxtVroomCar), RetEv("drive", v)>>
    \o (IF isTruck
        THEN <<CallEv("loadCargo", v, <<Num(420)>>),
               LogEv(TxtLoading \o <<"4", "2", "0">> \o TxtKgs), RetEv("loadCargo", v)>>
        ELSE <<>>)

C10_Order ==
    cur.fn = "operateVehicle" =>
        LET ev == cur.ev
            v == cur.arg[1]
        IN /\ IsPrefixOf(ev, ExpectedTrace(v, heap[v].proto = "Truck"))
           /\ \A i \in CallsOf(ev, "drive") : i > 1 /\ ev[1] = LogEv(TxtOperating)
           /\ \A i \in CallsOf(ev, "loadCargo") :
                 \E j \in ReturnsOf(ev, "drive") : j < i
           /\ pc = "top" => ev = ExpectedTrace(v, heap[v].proto = "Truck")

C10_RunToCompletion ==
    pc # "top" =>
        /\ cur'.fn = cur.fn
        /\ cur'.arg = cur.arg
        /\ IsPrefixOf(cur.ev, cur'.ev)
        /\ prev' = prev

\* C10: within one operateVehicle call the 'Operating vehicle...' line comes
\* first, then drive() is invoked, and loadCargo(420) is invoked only after
\* drive() has returned; while a call is in progress no other call begins.
C10_Temporal == [](C10_Order) /\ [][C10_RunToCompletion]_vars

C10_Witness ==
    /\ pc = "truck88"
    /\ cur.arg = <<"fordRaptor">>
    /\ Len(cur.ev) = 5
    /\ cur.ev[4] = RetEv("drive", "fordRaptor")
    /\ cur.ev[5] = CallEv("loadCargo", "fordRaptor", <<Num(CargoWeight)>>)
====
